---- MODULE Spec2Model ----
(***************************************************************************)
(* Diffie-Hellman key exchange followed by two AES-128/ECB/PKCS#7 message  *)
(* round trips, as performed by src/diffie-hellman/src/main.rs.            *)
(*                                                                         *)
(* Representation.  A BigUint is its sequence of base-256 digits, least    *)
(* significant first, without a most significant zero digit (zero is the   *)
(* empty sequence).  This is the digit string num-bigint's to_bytes_le     *)
(* emits, so values of 128 bits and more stay exact.  Byte strings (keys,  *)
(* plaintexts, ciphertexts) are sequences over 0..255.                     *)
(*                                                                         *)
(* The AES-128 block function lives in an external crate; it is modelled   *)
(* as a keyed permutation of the 16-byte blocks with a separately written  *)
(* inverse.  ECB chaining, PKCS#7 padding, unpadding and UTF-8 validation  *)
(* are modelled step by step.                                              *)
(***************************************************************************)
EXTENDS Integers, Sequences, FiniteSets

VARIABLES
    \* ---- main(): one variable per `let`, plus the position in main
    pc,
    alice_random_key, alice_shared_key,
    bob_random_key, bob_shared_key,
    bob_secret_key, alice_secret_key,
    encrypted_data, decrypted_data,
    encrypted_data2, decrypted_data2,
    \* ---- encrypt_data / decrypt_data called on their own
    c_stage, c_secret, c_plain, c_cipher, c_tamper, c_dsecret, c_result,
    \* ---- generate_secret_key_spec called on its own (two secrets)
    k_stage, k_in1, k_in2, k_key1, k_key2,
    \* ---- BigUint::modpow called on its own
    m_stage, m_base, m_exp, m_mod, m_result

driverVars == <<pc, alice_random_key, alice_shared_key, bob_random_key,
                bob_shared_key, bob_secret_key, alice_secret_key,
                encrypted_data, decrypted_data, encrypted_data2,
                decrypted_data2>>
cipherVars == <<c_stage, c_secret, c_plain, c_cipher, c_tamper, c_dsecret,
                c_result>>
kdfVars    == <<k_stage, k_in1, k_in2, k_key1, k_key2>>
modpowVars == <<m_stage, m_base, m_exp, m_mod, m_result>>
vars       == <<driverVars, cipherVars, kdfVars, modpowVars>>

----------------------------------------------------------------------------
(* Program constants *)

BASE == 5
PRIMEMOD == 57

\* [0u8; 16]: the length of the AES-128 key buffer
KEY_LEN == 16
\* Aes128: the cipher's block size in bytes
BLOCK_SIZE == 16

\* plain_text and plain_text2 of main, as UTF-8 bytes
plain_text ==
    <<84, 104, 105, 115, 32, 105, 115, 32, 116, 104, 101, 32, 68, 105, 102,
      102, 105, 101, 45, 72, 101, 108, 108, 109, 97, 110, 32, 107, 101, 121,
      32, 101, 120, 99, 104, 97, 110, 103, 101, 32, 112, 114, 111, 116, 111,
      99, 111, 108, 33>>
plain_text2 ==
    <<84, 104, 105, 115, 32, 112, 114, 111, 116, 111, 99, 111, 108, 32, 105,
      115, 32, 97, 32, 115, 121, 109, 109, 101, 116, 114, 105, 99, 32, 101,
      110, 99, 114, 121, 112, 116, 105, 111, 110, 32, 97, 108, 103, 111, 114,
      105, 116, 104, 109, 33>>

----------------------------------------------------------------------------
(* Bounds of the model *)

\* private keys drawn: low part 0..MaxLowKey, with and without a top byte
MaxLowKey == 18
\* plaintext lengths 0..MaxPlainLen for the cipher called on its own
MaxPlainLen == 33
\* digit positions 4..MaxSecretBytes-1 for the high digit of a secret
MaxSecretBytes == 18
\* modpow called on its own: base, exponent and modulus ranges
MaxBase == 7
MaxExp == 7
MaxModulus == 6

----------------------------------------------------------------------------
(* Values *)

\* a `let` not yet executed (kept a sequence so that it compares with values)
Unset == <<-1>>

\* results of calls that can fail
Ok(v)  == [tag |-> "ok", val |-> v]
Err    == [tag |-> "err", val |-> <<>>]
Panic  == [tag |-> "panic", val |-> <<>>]

RECURSIVE Repeat(_, _)
\* n copies of the byte v
Repeat(v, n) == IF n <= 0 THEN <<>> ELSE <<v>> \o Repeat(v, n - 1)

Zeros(n) == Repeat(0, n)

RECURSIVE BigUintFrom(_)
\* BigUint::from(n) for a machine integer n
BigUintFrom(n) ==
    IF n = 0 THEN <<>> ELSE <<n % 256>> \o BigUintFrom(n \div 256)

RECURSIVE ToNat(_)
\* the value of a BigUint that fits a machine integer
ToNat(x) == IF x = <<>> THEN 0 ELSE x[1] + 256 * ToNat(Tail(x))

\* BigUint::to_bytes_le: the base-256 digits, and the single byte 0 for zero
to_bytes_le(x) == IF x = <<>> THEN <<0>> ELSE x


\* the BigUint lo + hi * 256^pos, for lo < 256^pos and a digit hi
Digits(lo, pos, hi) ==
    IF hi = 0 THEN BigUintFrom(lo)
    ELSE LET d == BigUintFrom(lo) IN d \o Zeros(pos - Len(d)) \o <<hi>>

----------------------------------------------------------------------------
(* BigUint::modpow *)

RECURSIVE PowNat(_, _, _)
\* x^e mod m for machine integers, by squaring; m > 0
PowNat(x, e, m) ==
    IF e = 0 THEN 1 % m
    ELSE LET h  == PowNat(x, e \div 2, m)
             sq == (h * h) % m
         IN  IF e % 2 = 1 THEN (sq * (x % m)) % m ELSE sq

\* y^256 mod m: eight squarings
Pow256(y, m) ==
    LET a1 == (y * y) % m
        a2 == (a1 * a1) % m
        a3 == (a2 * a2) % m
        a4 == (a3 * a3) % m
        a5 == (a4 * a4) % m
        a6 == (a5 * a5) % m
        a7 == (a6 * a6) % m
    IN  (a7 * a7) % m

RECURSIVE PowDigitsFrom(_, _, _, _, _)
\* x^e mod m for an exponent e given by its digits, most significant digit
\* first: acc holds x^(digits above i), and
\* x^(256 * hi + d) = (x^hi)^256 * x^d
\* (the test acc < 0 never succeeds; it makes TLC evaluate the accumulator at
\* every step instead of building one deep expression)
PowDigitsFrom(x, e, i, acc, m) ==
    IF i = 0 \/ acc < 0 THEN acc
    ELSE PowDigitsFrom(x, e, i - 1,
                       (Pow256(acc, m) * PowNat(x, e[i], m)) % m, m)

PowDigits(x, e, m) == PowDigitsFrom(x, e, Len(e), 1 % m, m)

\* a slip: one multiplication too many (base^(exponent+1))
modpow_offbyone(base, exponent, modulus) ==
    IF modulus = <<>> THEN Panic
    ELSE LET m == ToNat(modulus) IN
         Ok(BigUintFrom((PowDigits(ToNat(base), exponent, m) * ToNat(base)) % m))

\* a variant that refuses the moduli 0 and 1
modpow_reject(base, exponent, modulus) ==
    IF modulus = <<>> \/ modulus = <<1>> THEN Panic
    ELSE Ok(BigUintFrom(PowDigits(ToNat(base), exponent, ToNat(modulus))))

\* a slip: even results left outside [0, modulus)
modpow_unreduced(base, exponent, modulus) ==
    IF modulus = <<>> THEN Panic
    ELSE LET m == ToNat(modulus)
             r == PowDigits(ToNat(base), exponent, m) IN
         Ok(BigUintFrom(IF r % 2 = 0 THEN r + 256 * m ELSE r))

\* base.modpow(&exponent, &modulus): panics on a zero modulus
\* ("attempt to calculate with zero modulus!"), else base^exponent mod modulus
modpow(base, exponent, modulus) ==
    IF modulus = <<>> THEN Panic
    ELSE Ok(BigUintFrom(PowDigits(ToNat(base), exponent, ToNat(modulus))))

----------------------------------------------------------------------------
(* generate_random_key *)

HighBytes == {0, 255}

\* the values rng.gen::<u128>() is drawn from here: small ones, and ones
\* that fill all 16 bytes
generate_random_key ==
    { Digits(lo, 15, hi) : lo \in 0..MaxLowKey, hi \in HighBytes }

----------------------------------------------------------------------------
(* generate_secret_key_spec *)

RECURSIVE KeyFill(_, _, _)
\* for (i, &byte) in key_bytes.iter().enumerate().take(16)
\*     { valid_key_bytes[i] = byte; }          (positions here are 1-based)
KeyFill(key_bytes, i, valid_key_bytes) ==
    IF i > Len(key_bytes) \/ i > KEY_LEN THEN valid_key_bytes
    ELSE KeyFill(key_bytes, i + 1,
                 [valid_key_bytes EXCEPT ![i] = key_bytes[i]])

\* a slip: the most significant bytes kept instead of the least significant
generate_secret_key_spec_hi(secret_key) ==
    LET kb == to_bytes_le(secret_key) IN
    IF Len(kb) <= KEY_LEN THEN KeyFill(kb, 1, Zeros(KEY_LEN))
    ELSE SubSeq(kb, Len(kb) - KEY_LEN + 1, Len(kb))

generate_secret_key_spec(secret_key) ==
    KeyFill(to_bytes_le(secret_key), 1, Zeros(KEY_LEN))


----------------------------------------------------------------------------
(* Aes128Ecb = Ecb<Aes128, Pkcs7> *)

RECURSIVE Sum(_)
Sum(s) == IF s = <<>> THEN 0 ELSE s[1] + Sum(Tail(s))

RECURSIVE EncryptFrom(_, _, _, _)
\* bytes i..BLOCK_SIZE of the encrypted block: byte i is the byte r places
\* further on (cyclically), shifted by the key byte at i and by i
EncryptFrom(key, block, r, i) ==
    IF i > BLOCK_SIZE THEN <<>>
    ELSE <<(block[((i - 1 + r) % BLOCK_SIZE) + 1] + key[i] + i) % 256>>
         \o EncryptFrom(key, block, r, i + 1)

\* The block cipher under a 16-byte key: a permutation of the blocks that
\* depends on every key byte (the block is rotated by the key's byte sum and
\* each byte is shifted by the key byte at its position).
encrypt_block(key, block) ==
    EncryptFrom(key, block, Sum(key) % BLOCK_SIZE, 1)

\* the position whose encrypted byte carries the plain byte at j
SourcePos(j, r) == ((j - 1 - r + BLOCK_SIZE) % BLOCK_SIZE) + 1

RECURSIVE DecryptFrom(_, _, _, _)
DecryptFrom(key, block, r, j) ==
    IF j > BLOCK_SIZE THEN <<>>
    ELSE <<(block[SourcePos(j, r)] - key[SourcePos(j, r)] - SourcePos(j, r)
            + 512) % 256>>
         \o DecryptFrom(key, block, r, j + 1)

\* a slip: the rotation undone in the wrong direction
decrypt_block_rot(key, block) ==
    DecryptFrom(key, block, BLOCK_SIZE - (Sum(key) % BLOCK_SIZE), 1)

\* The inverse permutation, written out on its own.
decrypt_block(key, block) ==
    DecryptFrom(key, block, Sum(key) % BLOCK_SIZE, 1)

RECURSIVE encrypt_blocks(_, _)
\* ECB: every block on its own, under the same key
encrypt_blocks(key, buf) ==
    IF buf = <<>> THEN <<>>
    ELSE encrypt_block(key, SubSeq(buf, 1, BLOCK_SIZE))
         \o encrypt_blocks(key, SubSeq(buf, BLOCK_SIZE + 1, Len(buf)))

RECURSIVE decrypt_blocks(_, _)
decrypt_blocks(key, buf) ==
    IF buf = <<>> THEN <<>>
    ELSE decrypt_block(key, SubSeq(buf, 1, BLOCK_SIZE))
         \o decrypt_blocks(key, SubSeq(buf, BLOCK_SIZE + 1, Len(buf)))

\* a slip: no padding block when the length is already a block multiple
Pkcs7Pad_aligned(data) ==
    LET n == (BLOCK_SIZE - (Len(data) % BLOCK_SIZE)) % BLOCK_SIZE IN
    data \o Repeat(n, n)

\* Pkcs7::pad: n = block size - (length mod block size) bytes of value n,
\* so between 1 and BLOCK_SIZE bytes are always added
Pkcs7Pad(data) ==
    LET n == BLOCK_SIZE - (Len(data) % BLOCK_SIZE) IN
    data \o Repeat(n, n)

\* Pkcs7::unpad: the last byte n is the pad length; it must be nonzero, at
\* most the data length, and the n-1 bytes before it must equal n
Pkcs7Unpad(data) ==
    IF data = <<>> THEN Err
    ELSE LET l == Len(data)
             n == data[l] IN
         IF n = 0 \/ n > l THEN Err
         ELSE IF \E j \in (l - n + 1)..(l - 1) : data[j] # n THEN Err
         ELSE Ok(SubSeq(data, 1, l - n))

\* cipher.encrypt_vec(plaintext)
encrypt_vec(key, plaintext) == encrypt_blocks(key, Pkcs7Pad(plaintext))

\* cipher.decrypt_vec(ciphertext): Err(BlockModeError) when the length is no
\* multiple of the block size or the padding is malformed
decrypt_vec(key, ciphertext) ==
    IF Len(ciphertext) % BLOCK_SIZE # 0 THEN Err
    ELSE Pkcs7Unpad(decrypt_blocks(key, ciphertext))

----------------------------------------------------------------------------
(* String::from_utf8 *)

Cont(b) == b \in 128..191

RECURSIVE Utf8Valid(_)
\* the well-formed UTF-8 byte sequences (Unicode, table 3-7)
Utf8Valid(s) ==
    IF s = <<>> THEN TRUE
    ELSE LET n  == Len(s)
             b1 == s[1]
             b2 == IF n >= 2 THEN s[2] ELSE -1
             b3 == IF n >= 3 THEN s[3] ELSE -1
             b4 == IF n >= 4 THEN s[4] ELSE -1
         IN
         IF b1 <= 127 THEN Utf8Valid(Tail(s))
         ELSE IF b1 \in 194..223
              THEN Cont(b2) /\ Utf8Valid(SubSeq(s, 3, n))
         ELSE IF b1 \in 224..239
              THEN /\ CASE b1 = 224 -> b2 \in 160..191
                        [] b1 = 237 -> b2 \in 128..159
                        [] OTHER    -> Cont(b2)
                   /\ Cont(b3)
                   /\ Utf8Valid(SubSeq(s, 4, n))
         ELSE IF b1 \in 240..244
              THEN /\ CASE b1 = 240 -> b2 \in 144..191
                        [] b1 = 244 -> b2 \in 128..143
                        [] OTHER    -> Cont(b2)
                   /\ Cont(b3) /\ Cont(b4)
                   /\ Utf8Valid(SubSeq(s, 5, n))
         ELSE FALSE

from_utf8(bytes) == IF Utf8Valid(bytes) THEN Ok(bytes) ELSE Err

----------------------------------------------------------------------------
(* encrypt_data, decrypt_data *)

\* encrypt_data(plain_text, secret_key); new_from_slices cannot fail on a
\* 16-byte key
encrypt_data(plain, secret_key) ==
    LET key == generate_secret_key_spec(secret_key) IN
    encrypt_vec(key, plain)

\* a variant that hands the failure back to the caller instead of unwrapping
decrypt_data_checked(encrypted, secret_key) ==
    LET key == generate_secret_key_spec(secret_key)
        d   == decrypt_vec(key, encrypted) IN
    IF d.tag # "ok" THEN Err
    ELSE LET t == from_utf8(d.val) IN
         IF t.tag # "ok" THEN Err ELSE Ok(t.val)

\* decrypt_data(encrypted_data, secret_key): both results are unwrapped, so
\* a failed decryption or invalid UTF-8 panics
decrypt_data(encrypted, secret_key) ==
    LET key == generate_secret_key_spec(secret_key)
        d   == decrypt_vec(key, encrypted) IN
    IF d.tag # "ok" THEN Panic
    ELSE LET t == from_utf8(d.val) IN
         IF t.tag # "ok" THEN Panic ELSE Ok(t.val)


----------------------------------------------------------------------------
(* main: the exchange driver.  pc names the line of main.rs to run next.   *)

DriverIdle ==
    /\ pc = "idle"
    /\ alice_random_key = Unset /\ alice_shared_key = Unset
    /\ bob_random_key = Unset   /\ bob_shared_key = Unset
    /\ bob_secret_key = Unset   /\ alice_secret_key = Unset
    /\ encrypted_data = Unset   /\ decrypted_data = Unset
    /\ encrypted_data2 = Unset  /\ decrypted_data2 = Unset

CipherIdle ==
    /\ c_stage = "idle" /\ c_secret = Unset /\ c_plain = Unset
    /\ c_cipher = Unset /\ c_tamper = "none" /\ c_dsecret = Unset
    /\ c_result = Ok(Unset)

KdfIdle ==
    /\ k_stage = "idle" /\ k_in1 = Unset /\ k_in2 = Unset
    /\ k_key1 = Unset /\ k_key2 = Unset

ModpowIdle ==
    /\ m_stage = "idle" /\ m_base = Unset /\ m_exp = Unset /\ m_mod = Unset
    /\ m_result = Ok(Unset)

\* the state on entry to main
Init ==
    /\ pc = "l58"
    /\ alice_random_key = Unset /\ alice_shared_key = Unset
    /\ bob_random_key = Unset   /\ bob_shared_key = Unset
    /\ bob_secret_key = Unset   /\ alice_secret_key = Unset
    /\ encrypted_data = Unset   /\ decrypted_data = Unset
    /\ encrypted_data2 = Unset  /\ decrypted_data2 = Unset
    /\ CipherIdle /\ KdfIdle /\ ModpowIdle

\* line 58: let alice_random_key = generate_random_key();
GenerateAliceKey ==
    /\ pc = "l58"
    /\ \E k \in generate_random_key : alice_random_key' = k
    /\ pc' = "l60"
    /\ UNCHANGED <<alice_shared_key, bob_random_key, bob_shared_key,
                   bob_secret_key, alice_secret_key, encrypted_data,
                   decrypted_data, encrypted_data2, decrypted_data2>>
    /\ UNCHANGED <<cipherVars, kdfVars, modpowVars>>

\* line 60: let alice_shared_key = BASE.modpow(&alice_random_key, &PRIMEMOD);
ComputeAliceShared ==
    /\ pc = "l60"
    /\ LET r == modpow(BigUintFrom(BASE), alice_random_key,
                       BigUintFrom(PRIMEMOD)) IN
       IF r.tag = "ok"
       THEN alice_shared_key' = r.val /\ pc' = "l65"
       ELSE UNCHANGED alice_shared_key /\ pc' = "panicked"
    /\ UNCHANGED <<alice_random_key, bob_random_key, bob_shared_key,
                   bob_secret_key, alice_secret_key, encrypted_data,
                   decrypted_data, encrypted_data2, decrypted_data2>>
    /\ UNCHANGED <<cipherVars, kdfVars, modpowVars>>

\* line 65: let bob_random_key = generate_random_key();
GenerateBobKey ==
    /\ pc = "l65"
    /\ \E k \in generate_random_key : bob_random_key' = k
    /\ pc' = "l67"
    /\ UNCHANGED <<alice_random_key, alice_shared_key, bob_shared_key,
                   bob_secret_key, alice_secret_key, encrypted_data,
                   decrypted_data, encrypted_data2, decrypted_data2>>
    /\ UNCHANGED <<cipherVars, kdfVars, modpowVars>>

\* line 67: let bob_shared_key = BASE.modpow(&bob_random_key, &PRIMEMOD);
ComputeBobShared ==
    /\ pc = "l67"
    /\ LET r == modpow(BigUintFrom(BASE), bob_random_key,
                       BigUintFrom(PRIMEMOD)) IN
       IF r.tag = "ok"
       THEN bob_shared_key' = r.val /\ pc' = "l69"
       ELSE UNCHANGED bob_shared_key /\ pc' = "panicked"
    /\ UNCHANGED <<alice_random_key, alice_shared_key, bob_random_key,
                   bob_secret_key, alice_secret_key, encrypted_data,
                   decrypted_data, encrypted_data2, decrypted_data2>>
    /\ UNCHANGED <<cipherVars, kdfVars, modpowVars>>

\* a slip: Bob raises his own public value instead of Alice's
BobDeriveSecret_own ==
    /\ pc = "l69"
    /\ LET r == modpow(bob_shared_key, bob_random_key,
                       BigUintFrom(PRIMEMOD)) IN
       IF r.tag = "ok"
       THEN bob_secret_key' = r.val /\ pc' = "l75"
       ELSE UNCHANGED bob_secret_key /\ pc' = "panicked"
    /\ UNCHANGED <<alice_random_key, alice_shared_key, bob_random_key,
                   bob_shared_key, alice_secret_key, encrypted_data,
                   decrypted_data, encrypted_data2, decrypted_data2>>
    /\ UNCHANGED <<cipherVars, kdfVars, modpowVars>>

\* line 69: let bob_secret_key =
\*              alice_shared_key.modpow(&bob_random_key, &PRIMEMOD);
BobDeriveSecret ==
    /\ pc = "l69"
    /\ LET r == modpow(alice_shared_key, bob_random_key,
                       BigUintFrom(PRIMEMOD)) IN
       IF r.tag = "ok"
       THEN bob_secret_key' = r.val /\ pc' = "l75"
       ELSE UNCHANGED bob_secret_key /\ pc' = "panicked"
    /\ UNCHANGED <<alice_random_key, alice_shared_key, bob_random_key,
                   bob_shared_key, alice_secret_key, encrypted_data,
                   decrypted_data, encrypted_data2, decrypted_data2>>
    /\ UNCHANGED <<cipherVars, kdfVars, modpowVars>>

\* a reordering: Alice derives as soon as Bob's public value exists, ahead
\* of Bob's own derivation
AliceDeriveSecret_early ==
    /\ pc = "l69"
    /\ alice_secret_key = Unset
    /\ LET r == modpow(bob_shared_key, alice_random_key,
                       BigUintFrom(PRIMEMOD)) IN
       IF r.tag = "ok"
       THEN alice_secret_key' = r.val /\ pc' = "l69"
       ELSE UNCHANGED alice_secret_key /\ pc' = "panicked"
    /\ UNCHANGED <<alice_random_key, alice_shared_key, bob_random_key,
                   bob_shared_key, bob_secret_key, encrypted_data,
                   decrypted_data, encrypted_data2, decrypted_data2>>
    /\ UNCHANGED <<cipherVars, kdfVars, modpowVars>>

\* line 75: let alice_secret_key =
\*              bob_shared_key.modpow(&alice_random_key, &PRIMEMOD);
AliceDeriveSecret ==
    /\ pc = "l75"
    /\ LET r == modpow(bob_shared_key, alice_random_key,
                       BigUintFrom(PRIMEMOD)) IN
       IF r.tag = "ok"
       THEN alice_secret_key' = r.val /\ pc' = "l80"
       ELSE UNCHANGED alice_secret_key /\ pc' = "panicked"
    /\ UNCHANGED <<alice_random_key, alice_shared_key, bob_random_key,
                   bob_shared_key, bob_secret_key, encrypted_data,
                   decrypted_data, encrypted_data2, decrypted_data2>>
    /\ UNCHANGED <<cipherVars, kdfVars, modpowVars>>

\* a slip: the second message is encrypted in place of the first
AliceEncrypt_msg2 ==
    /\ pc = "l80"
    /\ encrypted_data' = encrypt_data(plain_text2, alice_secret_key)
    /\ pc' = "l83"
    /\ UNCHANGED <<alice_random_key, alice_shared_key, bob_random_key,
                   bob_shared_key, bob_secret_key, alice_secret_key,
                   decrypted_data, encrypted_data2, decrypted_data2>>
    /\ UNCHANGED <<cipherVars, kdfVars, modpowVars>>

\* line 80: let encrypted_data = encrypt_data(plain_text, &alice_secret_key);
AliceEncrypt ==
    /\ pc = "l80"
    /\ encrypted_data' = encrypt_data(plain_text, alice_secret_key)
    /\ pc' = "l83"
    /\ UNCHANGED <<alice_random_key, alice_shared_key, bob_random_key,
                   bob_shared_key, bob_secret_key, alice_secret_key,
                   decrypted_data, encrypted_data2, decrypted_data2>>
    /\ UNCHANGED <<cipherVars, kdfVars, modpowVars>>

\* line 83: let decrypted_data = decrypt_data(&encrypted_data, &bob_secret_key);
BobDecrypt ==
    /\ pc = "l83"
    /\ LET r == decrypt_data(encrypted_data, bob_secret_key) IN
       IF r.tag = "ok"
       THEN decrypted_data' = r.val /\ pc' = "l88"
       ELSE UNCHANGED decrypted_data /\ pc' = "panicked"
    /\ UNCHANGED <<alice_random_key, alice_shared_key, bob_random_key,
                   bob_shared_key, bob_secret_key, alice_secret_key,
                   encrypted_data, encrypted_data2, decrypted_data2>>
    /\ UNCHANGED <<cipherVars, kdfVars, modpowVars>>

\* line 88: let encrypted_data2 = encrypt_data(plain_text2, &bob_secret_key);
BobEncrypt ==
    /\ pc = "l88"
    /\ encrypted_data2' = encrypt_data(plain_text2, bob_secret_key)
    /\ pc' = "l91"
    /\ UNCHANGED <<alice_random_key, alice_shared_key, bob_random_key,
                   bob_shared_key, bob_secret_key, alice_secret_key,
                   encrypted_data, decrypted_data, decrypted_data2>>
    /\ UNCHANGED <<cipherVars, kdfVars, modpowVars>>

\* line 91: let decrypted_data2 =
\*              decrypt_data(&encrypted_data2, &alice_secret_key);
AliceDecrypt ==
    /\ pc = "l91"
    /\ LET r == decrypt_data(encrypted_data2, alice_secret_key) IN
       IF r.tag = "ok"
       THEN decrypted_data2' = r.val /\ pc' = "done"
       ELSE UNCHANGED decrypted_data2 /\ pc' = "panicked"
    /\ UNCHANGED <<alice_random_key, alice_shared_key, bob_random_key,
                   bob_shared_key, bob_secret_key, alice_secret_key,
                   encrypted_data, decrypted_data, encrypted_data2>>
    /\ UNCHANGED <<cipherVars, kdfVars, modpowVars>>

Next ==
    \/ GenerateAliceKey
    \/ ComputeAliceShared
    \/ GenerateBobKey
    \/ ComputeBobShared
    \/ BobDeriveSecret
    \/ AliceDeriveSecret
    \/ AliceEncrypt
    \/ BobDecrypt
    \/ BobEncrypt
    \/ AliceDecrypt

Spec == Init /\ [][Next]_vars


----------------------------------------------------------------------------
(* Claims about main *)

\* the state of a party in the sense of the party state machine
PartyState(random_key, shared_key, secret_key) ==
    IF random_key = Unset THEN "NotCreated"
    ELSE IF shared_key = Unset THEN "Initialized"
    ELSE IF secret_key = Unset THEN "PublicValueComputed"
    ELSE "SecretEstablished"

AliceState == PartyState(alice_random_key, alice_shared_key, alice_secret_key)
BobState   == PartyState(bob_random_key, bob_shared_key, bob_secret_key)

\* C1: DH agreement.  For base 5 and modulus 57 and every pair of private
\* keys, once both parties have derived their secret the two secrets are
\* equal; in particular alice_secret_key = bob_secret_key when main ends.
C1_Agreement ==
    /\ alice_secret_key # Unset => alice_secret_key = bob_secret_key
    /\ pc = "done" => /\ alice_secret_key # Unset
                      /\ alice_secret_key = bob_secret_key

\* main has ended with distinct 128-bit private keys and a common secret
\* other than 0 and 1
C1_Witness ==
    /\ pc = "done"
    /\ Len(alice_random_key) = 16 /\ Len(bob_random_key) = 16
    /\ alice_random_key # bob_random_key
    /\ alice_secret_key = bob_secret_key
    /\ ToNat(alice_secret_key) > 1

\* C3: end to end.  Whatever private keys were drawn, Bob's decryption of
\* Alice's ciphertext is message A and Alice's decryption of Bob's
\* ciphertext is message B.
C3_EndToEnd ==
    /\ pc \in {"l88", "l91", "done"} => decrypted_data = plain_text
    /\ pc = "done" => decrypted_data2 = plain_text2

\* main has ended, both messages were decrypted, under a key that is not the
\* all-zero key
C3_Witness ==
    /\ pc = "done"
    /\ decrypted_data = plain_text /\ decrypted_data2 = plain_text2
    /\ encrypted_data # encrypted_data2
    /\ ToNat(bob_secret_key) > 1

\* C6 as stated: private key 6 gives public value 54, private key 15 gives
\* public value 20, and the two secrets agree.
C6_AsStated ==
    /\ (alice_random_key = <<6>> /\ alice_shared_key # Unset)
          => alice_shared_key = <<54>>
    /\ (bob_random_key = <<15>> /\ bob_shared_key # Unset)
          => bob_shared_key = <<20>>
    /\ (alice_random_key = <<6>> /\ bob_random_key = <<15>>
        /\ alice_secret_key # Unset) => alice_secret_key = bob_secret_key

\* C6 amended: with base 5 and modulus 57, private key 6 gives public value
\* 5^6 mod 57 = 7, private key 15 gives public value 5^15 mod 57 = 26, and
\* both parties derive the secret 26^6 mod 57 = 7^15 mod 57 = 1.
C6_TestVector ==
    /\ (alice_random_key = <<6>> /\ alice_shared_key # Unset)
          => alice_shared_key = <<7>>
    /\ (bob_random_key = <<15>> /\ bob_shared_key # Unset)
          => bob_shared_key = <<26>>
    /\ (alice_random_key = <<6>> /\ bob_random_key = <<15>>
        /\ bob_secret_key # Unset) => bob_secret_key = <<1>>
    /\ (alice_random_key = <<6>> /\ bob_random_key = <<15>>
        /\ alice_secret_key # Unset) => alice_secret_key = <<1>>

\* the run with private keys 6 and 15 has ended
C6_Witness ==
    /\ pc = "done"
    /\ alice_random_key = <<6>> /\ bob_random_key = <<15>>
    /\ alice_shared_key = <<7>> /\ bob_shared_key = <<26>>
    /\ alice_secret_key = <<1>> /\ bob_secret_key = <<1>>

PartyOrder ==
    <<"NotCreated", "Initialized", "PublicValueComputed", "SecretEstablished">>

Rank(st) == CHOOSE i \in 1..4 : PartyOrder[i] = st

C9_StateOrder ==
    \* a secret is derived only with the own private key and the peer's
    \* public value at hand
    /\ bob_secret_key # Unset
          => bob_random_key # Unset /\ alice_shared_key # Unset
    /\ alice_secret_key # Unset
          => alice_random_key # Unset /\ bob_shared_key # Unset
    \* the responder derives first
    /\ alice_secret_key # Unset => bob_secret_key # Unset
    \* no encrypt or decrypt step before both secrets are established
    /\ (encrypted_data # Unset \/ decrypted_data # Unset
        \/ encrypted_data2 # Unset \/ decrypted_data2 # Unset
        \/ pc \in {"l83", "l88", "l91", "done"})
          => AliceState = "SecretEstablished" /\ BobState = "SecretEstablished"

C9_StepOrder ==
    \* every step leaves a party's state alone or moves it to the next one
    /\ Rank(AliceState') \in {Rank(AliceState), Rank(AliceState) + 1}
    /\ Rank(BobState') \in {Rank(BobState), Rank(BobState) + 1}

SmallKeys == { <<s>> \o Zeros(KEY_LEN - 1) : s \in 0..56 }

SecretIsSmall(secret_key) ==
    secret_key # Unset =>
        /\ ToNat(secret_key) \in 0..56
        /\ generate_secret_key_spec(secret_key)
              = <<ToNat(secret_key)>> \o Zeros(KEY_LEN - 1)
        /\ generate_secret_key_spec(secret_key) \in SmallKeys

\* C10: whatever 128-bit private keys are drawn, both secrets lie in
\* [0, 57); the derived key has byte 0 equal to the secret and bytes 1..15
\* zero, so it is one of at most 57 keys.
C10_SmallKeySpace ==
    /\ SecretIsSmall(bob_secret_key)
    /\ SecretIsSmall(alice_secret_key)
    /\ Cardinality(SmallKeys) <= 57

\* 128-bit private keys, and a secret above 16 in use as a key
C10_Witness ==
    /\ pc = "done"
    /\ Len(alice_random_key) = 16 /\ Len(bob_random_key) = 16
    /\ ToNat(alice_secret_key) > 16
    /\ generate_secret_key_spec(alice_secret_key)[1] = ToNat(alice_secret_key)


----------------------------------------------------------------------------
(* encrypt_data and decrypt_data called on their own: a secret and a text   *)
(* are chosen, the text is encrypted, the ciphertext may be damaged or the *)
(* decrypting secret exchanged on the way, and the result is decrypted.    *)

\* secrets: zero, one and two digits, 16 digits, and 17 digits
\* (7 + 2^128, which shares its low 16 bytes with 7)
CipherSecrets ==
    { <<>>, <<1>>, <<7>>, <<56>>, Digits(7, 15, 255), Digits(7, 16, 1) }

\* tails of the texts: 'A', the control characters U+0001 and U+0010 (the
\* values of pad bytes), and the two-byte character U+00E9
Tails == { <<65>>, <<1>>, <<16>>, <<195, 169>> }

\* the texts: valid UTF-8 of every length 0..MaxPlainLen ('A's and a tail)
PlainTexts ==
    { Repeat(65, lt[1] - Len(lt[2])) \o lt[2] :
          lt \in { x \in (0..MaxPlainLen) \X Tails : Len(x[2]) <= x[1] } }
    \cup { <<>> }

CipherInit ==
    /\ c_stage = "input"
    /\ c_secret \in CipherSecrets
    /\ c_plain \in PlainTexts
    /\ c_cipher = Unset
    /\ c_tamper = "none"
    /\ c_dsecret = c_secret
    /\ c_result = Ok(Unset)
    /\ DriverIdle /\ KdfIdle /\ ModpowIdle

\* encrypt_data(c_plain, &c_secret)
CipherEncrypt ==
    /\ c_stage = "input"
    /\ c_cipher' = encrypt_data(c_plain, c_secret)
    /\ c_stage' = "encrypted"
    /\ UNCHANGED <<c_secret, c_plain, c_tamper, c_dsecret, c_result>>
    /\ UNCHANGED <<driverVars, kdfVars, modpowVars>>

\* the ciphertext loses its last byte
TruncateByte ==
    /\ c_stage = "encrypted" /\ c_tamper = "none"
    /\ c_cipher' = SubSeq(c_cipher, 1, Len(c_cipher) - 1)
    /\ c_tamper' = "truncated"
    /\ UNCHANGED <<c_stage, c_secret, c_plain, c_dsecret, c_result>>
    /\ UNCHANGED <<driverVars, kdfVars, modpowVars>>

\* the ciphertext loses its last block
DropBlock ==
    /\ c_stage = "encrypted" /\ c_tamper = "none"
    /\ c_cipher' = SubSeq(c_cipher, 1, Len(c_cipher) - BLOCK_SIZE)
    /\ c_tamper' = "dropped"
    /\ UNCHANGED <<c_stage, c_secret, c_plain, c_dsecret, c_result>>
    /\ UNCHANGED <<driverVars, kdfVars, modpowVars>>

\* one byte of the last block is changed
CorruptByte ==
    /\ c_stage = "encrypted" /\ c_tamper = "none"
    /\ \E d \in {1, 128} :
          c_cipher' = [c_cipher EXCEPT ![Len(c_cipher)] = (@ + d) % 256]
    /\ c_tamper' = "corrupted"
    /\ UNCHANGED <<c_stage, c_secret, c_plain, c_dsecret, c_result>>
    /\ UNCHANGED <<driverVars, kdfVars, modpowVars>>

\* the receiver holds another secret
WrongKey ==
    /\ c_stage = "encrypted" /\ c_tamper = "none"
    /\ \E s \in CipherSecrets \ {c_secret} : c_dsecret' = s
    /\ c_tamper' = "wrong_key"
    /\ UNCHANGED <<c_stage, c_secret, c_plain, c_cipher, c_result>>
    /\ UNCHANGED <<driverVars, kdfVars, modpowVars>>

\* decrypt_data(&c_cipher, &c_dsecret)
CipherDecrypt ==
    /\ c_stage = "encrypted"
    /\ c_result' = decrypt_data(c_cipher, c_dsecret)
    /\ c_stage' = "decrypted"
    /\ UNCHANGED <<c_secret, c_plain, c_cipher, c_tamper, c_dsecret>>
    /\ UNCHANGED <<driverVars, kdfVars, modpowVars>>

CipherNext ==
    \/ CipherEncrypt
    \/ TruncateByte
    \/ DropBlock
    \/ CorruptByte
    \/ WrongKey
    \/ CipherDecrypt

CipherSpec == CipherInit /\ [][CipherNext]_vars

\* C2: round trip.  For every key and every text (the empty one and lengths
\* that are multiples of 16 included), decrypting the ciphertext under the
\* key it was encrypted with returns exactly the text.
C2_RoundTrip ==
    (c_stage = "decrypted" /\ c_tamper = "none") => c_result = Ok(c_plain)

\* a text of two full blocks went through under a 16-byte secret
C2_Witness ==
    /\ c_stage = "decrypted" /\ c_tamper = "none"
    /\ Len(c_plain) = 2 * BLOCK_SIZE
    /\ Len(c_secret) = KEY_LEN
    /\ c_result = Ok(c_plain)

\* C7: the ciphertext of a text of L bytes has 16 * ceil((L+1)/16) bytes:
\* one block for the empty text, a whole extra block when L is a multiple
\* of 16.
C7_CipherLength ==
    (c_stage \in {"encrypted", "decrypted"} /\ c_tamper = "none") =>
        /\ Len(c_cipher) = 16 * ((Len(c_plain) + 16) \div 16)
        /\ Len(c_cipher) > Len(c_plain)
        /\ c_plain = <<>> => Len(c_cipher) = 16

\* a text of exactly one block has become two blocks
C7_Witness ==
    /\ c_stage = "encrypted" /\ c_tamper = "none"
    /\ Len(c_plain) = 16 /\ Len(c_cipher) = 32

\* the bytes the block cipher yields for the ciphertext at hand
RawDecrypted ==
    decrypt_blocks(generate_secret_key_spec(c_dsecret), c_cipher)

\* PKCS#7: the data ends in n bytes of value n, for some n >= 1
WellPadded(data) ==
    \E n \in 1..Len(data) :
        \A j \in (Len(data) - n + 1)..Len(data) : data[j] = n

BadCiphertext ==
    \/ c_cipher = <<>>
    \/ Len(c_cipher) % 16 # 0
    \/ ~WellPadded(RawDecrypted)

\* C4 as stated: malformed padding comes back as an error value, and the
\* call never panics.
C4_AsStated ==
    c_stage = "decrypted" =>
        /\ c_result.tag # "panic"
        /\ BadCiphertext => c_result = Err

\* C4 amended: decrypt_data has no error value.  When the ciphertext is
\* empty, its length is no multiple of 16, or the final block's padding is
\* not well-formed (wrong key, truncated or corrupted ciphertext), the call
\* panics; it panics as well when the unpadded bytes are not valid UTF-8; a
\* returned text is the decrypted bytes without their well-formed padding.
C4_PanicsOnBadInput ==
    c_stage = "decrypted" =>
        /\ c_result.tag \in {"ok", "panic"}
        /\ BadCiphertext => c_result = Panic
        /\ c_result.tag = "ok" =>
              /\ ~BadCiphertext
              /\ \E n \in 1..255 :
                    c_result.val \o Repeat(n, n) = RawDecrypted
        /\ (c_result = Panic /\ ~BadCiphertext) =>
              ~Utf8Valid(SubSeq(RawDecrypted, 1,
                   Len(RawDecrypted) - RawDecrypted[Len(RawDecrypted)]))

\* a decryption under another key met malformed padding and panicked
C4_Witness ==
    /\ c_stage = "decrypted" /\ c_tamper = "wrong_key"
    /\ Len(c_cipher) % 16 = 0
    /\ ~WellPadded(RawDecrypted)
    /\ c_result = Panic


----------------------------------------------------------------------------
(* generate_secret_key_spec called on its own, on two secrets.  A secret   *)
(* is given as n + val * 256^pos with n < 2^31 and pos >= 4, so that its   *)
(* bytes can be stated by arithmetic on n, pos and val.                    *)

KdfLows == {0, 255, 256, 2147483647}
KdfHighs == {0, 1, 255}

KdfInputs ==
    [n : KdfLows, pos : 4..(MaxSecretBytes - 1), val : KdfHighs]

\* the BigUint n + val * 256^pos
SecretOf(in) == Digits(in.n, in.pos, in.val)

KdfInit ==
    /\ k_stage = "input"
    /\ k_in1 \in KdfInputs
    /\ k_in2 \in KdfInputs
    /\ k_key1 = Unset /\ k_key2 = Unset
    /\ DriverIdle /\ CipherIdle /\ ModpowIdle

\* generate_secret_key_spec(&secret) for both secrets
KdfDerive ==
    /\ k_stage = "input"
    /\ k_key1' = generate_secret_key_spec(SecretOf(k_in1))
    /\ k_key2' = generate_secret_key_spec(SecretOf(k_in2))
    /\ k_stage' = "derived"
    /\ UNCHANGED <<k_in1, k_in2>>
    /\ UNCHANGED <<driverVars, cipherVars, modpowVars>>

KdfNext == KdfDerive

KdfSpec == KdfInit /\ [][KdfNext]_vars

\* floor(s / 256^i) mod 256 for s = n + val * 256^pos (n < 2^31, pos >= 4)
ByteOf(in, i) ==
    IF i < 4 THEN (in.n \div (256 ^ i)) % 256
    ELSE IF i = in.pos THEN in.val
    ELSE 0

\* s mod 2^128 for s = n + val * 256^pos, as the pair (n, high part)
Mod2p128(in) ==
    <<in.n, IF in.pos < 16 /\ in.val # 0 THEN <<in.pos, in.val>> ELSE <<>> >>

\* C8: the key is 16 bytes, byte i being floor(s / 256^i) mod 256: the
\* little-endian bytes of s, zero-padded when s is short and cut to the 16
\* least significant bytes when s is long.  Equal secrets give equal keys,
\* and two secrets give the same key exactly when they are congruent
\* modulo 2^128.
C8_KeyDerivation ==
    k_stage = "derived" =>
        /\ Len(k_key1) = 16 /\ Len(k_key2) = 16
        /\ \A i \in 0..15 : k_key1[i + 1] = ByteOf(k_in1, i)
        /\ \A i \in 0..15 : k_key2[i + 1] = ByteOf(k_in2, i)
        /\ SecretOf(k_in1) = SecretOf(k_in2) => k_key1 = k_key2
        /\ k_key1 = k_key2 <=> Mod2p128(k_in1) = Mod2p128(k_in2)

\* two different secrets, 2^31 - 1 and 2^31 - 1 + 2^128, gave the same key
C8_Witness ==
    /\ k_stage = "derived"
    /\ k_in1.n = 2147483647 /\ k_in1.pos = 16 /\ k_in1.val = 1
    /\ k_in2.n = 2147483647 /\ k_in2.val = 0
    /\ Len(SecretOf(k_in1)) = 17
    /\ k_key1 = k_key2

----------------------------------------------------------------------------
(* BigUint::modpow called on its own, the modulus 0 and 1 included *)

ModpowInit ==
    /\ m_stage = "input"
    /\ m_base \in { BigUintFrom(b) : b \in 0..MaxBase }
    /\ m_exp \in { BigUintFrom(e) : e \in 0..MaxExp }
    /\ m_mod \in { BigUintFrom(m) : m \in 0..MaxModulus }
    /\ m_result = Ok(Unset)
    /\ DriverIdle /\ CipherIdle /\ KdfIdle

\* m_base.modpow(&m_exp, &m_mod)
ModpowCall ==
    /\ m_stage = "input"
    /\ m_result' = modpow(m_base, m_exp, m_mod)
    /\ m_stage' = "called"
    /\ UNCHANGED <<m_base, m_exp, m_mod>>
    /\ UNCHANGED <<driverVars, cipherVars, kdfVars>>

ModpowNext == ModpowCall

ModpowSpec == ModpowInit /\ [][ModpowNext]_vars

====
